---- MODULE Spec2Model ----
(***************************************************************************)
(* Model of the tfstate-mcp server: the tool dispatcher of main.py         *)
(* (call_tool, get_s3_client, list_tfstate_files, read_and_search_tfstate) *)
(* and the S3Backend class of backends/s3.py.                              *)
(*                                                                         *)
(* Python values are modelled as follows.  A str is a TLA+ string, the     *)
(* value None is the string None below, a dict is a function whose DOMAIN  *)
(* is the set of keys that are present, a list is a sequence.  A call that *)
(* can raise yields a record [ok |-> TRUE, val |-> v] or                    *)
(* [ok |-> FALSE, exc |-> class, msg |-> str(e)].                          *)
(* The Korean message literals of main.py are written in ASCII (the        *)
(* original literal is quoted in the comment next to each of them).        *)
(***************************************************************************)
EXTENDS Integers, Sequences, FiniteSets, TLC

VARIABLES environ, global_bucket_name, store, s3_client, backend,
          boto3_call, request, call, result, tasks

vars == <<environ, global_bucket_name, store, s3_client, backend,
          boto3_call, request, call, result, tasks>>

-----------------------------------------------------------------------------
(* Bounds of the model.                                                    *)

MaxPages == 2
MaxPageLen == 2
MaxResources == 2
MaxTasks == 2

-----------------------------------------------------------------------------
(* Python values.                                                          *)

None == "<None>"

\* Python truthiness of an Optional[str]: None and "" are falsy.
Truthy(v) == v # None /\ v # ""

\* dict.get(key) and dict.get(key, default)
Get(d, k) == IF k \in DOMAIN d THEN d[k] ELSE None
GetD(d, k, default) == IF k \in DOMAIN d THEN d[k] ELSE default

\* keyword arguments / dict literal built from optional values: the keys whose
\* value is Absent are not part of the dict
Absent == "<absent>"
MkDict(f) == [k \in {j \in DOMAIN f : f[j] # Absent} |-> f[k]]

\* None where the value is an object reference (a client, a backend)
Null == [is_none |-> TRUE]

Ok(v) == [ok |-> TRUE, val |-> v]
Raise(cls, m) == [ok |-> FALSE, exc |-> cls, msg |-> m]

\* str.endswith(suffix)
endswith(s, suffix) ==
    /\ Len(s) >= Len(suffix)
    /\ SubSeq(s, Len(s) - Len(suffix) + 1, Len(s)) = suffix

\* `a in b` for two str
contains(b, a) ==
    \E i \in 0..(Len(b) - Len(a)) : SubSeq(b, i + 1, i + Len(a)) = a

UpperAlphabet == "ABCDEFGHIJKLMNOPQRSTUVWXYZ"
LowerAlphabet == "abcdefghijklmnopqrstuvwxyz"

\* the lower-case letter of each upper-case letter
LowerOf ==
    [c \in {SubSeq(UpperAlphabet, i, i) : i \in 1..26} |->
        LET i == CHOOSE j \in 1..26 : SubSeq(UpperAlphabet, j, j) = c
        IN  SubSeq(LowerAlphabet, i, i)]

LowerChar(c) == IF c \in DOMAIN LowerOf THEN LowerOf[c] ELSE c

\* str.lower()
RECURSIVE lower(_)
lower(s) ==
    IF Len(s) = 0 THEN ""
    ELSE LowerChar(SubSeq(s, 1, 1)) \o lower(SubSeq(s, 2, Len(s)))

-----------------------------------------------------------------------------
(* The object store as the program sees it through boto3.                  *)
(* store.pages is what paginate() yields for the bucket: a sequence of     *)
(* response pages, each a dict that has a 'Contents' list of {'Key': k}    *)
(* or has no 'Contents' at all.  store.body describes the bytes of the     *)
(* object get_object returns.                                              *)

KeyPool == {"a/state1.tfstate", "b/state2.tfstate", "c.tfstate.backup"}

RECURSIVE SeqsUpTo(_, _)
SeqsUpTo(S, n) ==
    IF n = 0 THEN {<<>>}
    ELSE LET shorter == SeqsUpTo(S, n - 1)
         IN  shorter \cup {Append(q, x) : q \in {r \in shorter : Len(r) = n - 1}, x \in S}

Objects == {[Key |-> k] : k \in KeyPool}

PageSet ==
    {[KeyCount |-> 0]} \cup
    {[KeyCount |-> Len(c), Contents |-> c] : c \in SeqsUpTo(Objects, MaxPageLen)}

PagesSet == SeqsUpTo(PageSet, MaxPages)

\* the listing of the spec's example store, on two pages with an empty
\* page in between
SamplePages ==
    << [KeyCount |-> 2, Contents |-> <<[Key |-> "a/state1.tfstate"], [Key |-> "a/other.txt"]>>],
       [KeyCount |-> 0],
       [KeyCount |-> 2, Contents |-> <<[Key |-> "b/state2.tfstate"], [Key |-> "tfstate"]>>] >>

\* state documents: resources with and without 'type', 'name', 'instances'
Instance1 == [attributes |-> "{id: i-1}", status |-> "tainted", schema_version |-> "1"]
Instance2 == [attributes |-> "{id: i-2}"]

TypePool == {Absent, "aws_instance", "AWS_DB"}
NamePool == {Absent, "web", "Db"}

ResourcePool ==
    LET head(t, n) == MkDict([type |-> t, name |-> n,
                              provider |-> "provider[aws]", mode |-> "managed"])
    IN  {head(t, n) : t \in TypePool, n \in NamePool} \cup
        {head(t, n) @@ [instances |-> <<Instance1, Instance2>>] :
             t \in TypePool, n \in NamePool}

Document(resources) ==
    [version |-> "4", terraform_version |-> "1.5.7", serial |-> "12",
     lineage |-> "3f2a", resources |-> resources]

EmptyDocument == MkDict([version |-> Absent])

DocumentSet ==
    {Document(rs) : rs \in SeqsUpTo(ResourcePool, MaxResources)}
        \cup {EmptyDocument, [version |-> "4"]}

\* the document of the spec's example
SampleDocument ==
    [version |-> "4",
     resources |-> << [type |-> "aws_instance", name |-> "web", instances |-> <<>>] >>]

\* a document with a resource that has no 'type'
UntypedDocument ==
    Document(<< [type |-> "aws_instance", name |-> "web", instances |-> <<Instance1>>],
                [name |-> "db", mode |-> "data"] >>)

\* the bytes of the object: whether they decode as UTF-8, whether the text
\* is JSON, and the JSON value it denotes
JsonBody(document) ==
    [valid_utf8 |-> TRUE, valid_json |-> TRUE, json_type |-> "object", json |-> document]
ArrayBody ==
    [valid_utf8 |-> TRUE, valid_json |-> TRUE, json_type |-> "list", json |-> EmptyDocument]
NotJsonBody ==
    [valid_utf8 |-> TRUE, valid_json |-> FALSE, json_type |-> "none", json |-> EmptyDocument]
UndecodableBody ==
    [valid_utf8 |-> FALSE, valid_json |-> FALSE, json_type |-> "none", json |-> EmptyDocument]

SampleBodies == {JsonBody(SampleDocument), JsonBody(UntypedDocument),
                 JsonBody(EmptyDocument), ArrayBody, NotJsonBody, UndecodableBody}

\* the listing of an empty bucket: one page without 'Contents'
EmptyPages == << [KeyCount |-> 0] >>

-----------------------------------------------------------------------------
(* backends/s3.py                                                          *)

\* list_states without the suffix test: every key of the page is kept
RECURSIVE S3ScanContentsUnfiltered(_, _)
S3ScanContentsUnfiltered(contents, tfstate_files) ==
    IF Len(contents) = 0 THEN tfstate_files
    ELSE S3ScanContentsUnfiltered(Tail(contents), Append(tfstate_files, Head(contents).Key))

\* the inner loop of list_states over page['Contents']
RECURSIVE S3ScanContents(_, _)
S3ScanContents(contents, tfstate_files) ==
    IF Len(contents) = 0 THEN tfstate_files
    ELSE LET key == Head(contents).Key
         IN  S3ScanContents(Tail(contents),
                            IF endswith(key, ".tfstate")
                            THEN Append(tfstate_files, key)
                            ELSE tfstate_files)

\* the outer loop of list_states over the pages
RECURSIVE S3ScanPages(_, _)
S3ScanPages(pages, tfstate_files) ==
    IF Len(pages) = 0 THEN tfstate_files
    ELSE LET page == Head(pages)
         IN  S3ScanPages(Tail(pages),
                         IF "Contents" \in DOMAIN page
                         THEN S3ScanContents(page.Contents, tfstate_files)
                         ELSE tfstate_files)

\* ClientError codes the handlers distinguish, one they do not, and an
\* exception of botocore that is no ClientError
ListFaults == {"ok", "NoSuchBucket", "AccessDenied", "InternalError", "EndpointConnectionError"}
GetFaults == {"ok", "NoSuchKey", "AccessDenied", "InternalError", "EndpointConnectionError"}
ClientErrorCodes == {"NoSuchBucket", "NoSuchKey", "AccessDenied", "InternalError"}

\* outcomes of creating the session and client in boto3
BotoOutcomes == {"ok", "NoCredentialsError", "ProfileNotFound"}

\* _get_s3_client: the keyword arguments handed to boto3.Session
S3SessionKwargs(profile_name, region_name, aws_access_key_id, aws_secret_access_key, aws_session_token) ==
    LET keys == Truthy(aws_access_key_id) /\ Truthy(aws_secret_access_key)
    IN  MkDict([profile_name |-> IF Truthy(profile_name) THEN profile_name ELSE Absent,
                region_name |-> IF Truthy(region_name) THEN region_name ELSE Absent,
                aws_access_key_id |-> IF keys THEN aws_access_key_id ELSE Absent,
                aws_secret_access_key |-> IF keys THEN aws_secret_access_key ELSE Absent,
                aws_session_token |-> IF keys /\ Truthy(aws_session_token)
                                      THEN aws_session_token ELSE Absent])

\* _get_s3_client: the client, or the ValueError it raises
S3GetClient(session_kwargs, boto) ==
    IF boto = "ok"
    THEN Ok([fn |-> "boto3.Session", kwargs |-> session_kwargs])
    ELSE IF boto = "NoCredentialsError"
    THEN Raise("ValueError", "AWS credentials not found. Please provide profile_name, set environment variables, or provide access keys explicitly.")
    ELSE Raise("ValueError", "Failed to create S3 client: " \o boto)

\* S3Backend.list_states: the result, or the exception it raises
S3ListStates(self, fault) ==
    IF fault = "ok" THEN Ok(S3ScanPages(store.pages, <<>>))
    ELSE IF fault = "NoSuchBucket"
    THEN Raise("ValueError", "Bucket '" \o self.bucket_name \o "' not found.")
    ELSE IF fault = "AccessDenied"
    THEN Raise("ValueError", "Access denied to bucket '" \o self.bucket_name \o "'.")
    ELSE IF fault \in ClientErrorCodes
    THEN Raise("ValueError", "S3 Error: " \o fault)
    ELSE Raise(fault, fault)

\* S3Backend.get_state: decode the body as UTF-8 and parse it as JSON
S3GetState(self, path, fault) ==
    IF fault = "ok"
    THEN IF ~store.body.valid_utf8 THEN Raise("UnicodeDecodeError", "'utf-8' codec can't decode")
         ELSE IF ~store.body.valid_json
         THEN Raise("ValueError", "File '" \o path \o "' is not valid JSON.")
         ELSE Ok(store.body.json)
    ELSE IF fault = "NoSuchKey"
    THEN Raise("ValueError", "File '" \o path \o "' not found in bucket '" \o self.bucket_name \o "'.")
    ELSE IF fault = "AccessDenied"
    THEN Raise("ValueError", "Access denied to file '" \o path \o "'.")
    ELSE IF fault \in ClientErrorCodes
    THEN Raise("ValueError", "S3 Error: " \o fault)
    ELSE Raise(fault, fault)

\* S3Backend(bucket_name, profile_name, ...)
S3BackendInit(bucket_name, profile_name, region_name, aws_access_key_id, aws_secret_access_key, aws_session_token, boto) ==
    LET kw == S3SessionKwargs(profile_name, region_name, aws_access_key_id,
                              aws_secret_access_key, aws_session_token)
        made == S3GetClient(kw, boto)
    IN  /\ call' = [op |-> "S3Backend",
                    args |-> [bucket_name |-> bucket_name, profile_name |-> profile_name,
                              region_name |-> region_name,
                              aws_access_key_id |-> aws_access_key_id,
                              aws_secret_access_key |-> aws_secret_access_key,
                              aws_session_token |-> aws_session_token]]
        /\ boto3_call' = [fn |-> "boto3.Session", kwargs |-> kw, outcome |-> boto]
        /\ request' = Null
        /\ backend' = IF made.ok THEN [bucket_name |-> bucket_name, client |-> made.val]
                      ELSE backend
        /\ result' = IF made.ok THEN Ok("S3Backend") ELSE made
        /\ UNCHANGED <<environ, global_bucket_name, store, s3_client, tasks>>

\* backend.list_states(prefix)
BackendListStates(prefix, fault) ==
    /\ backend # Null
    /\ call' = [op |-> "list_states", prefix |-> prefix]
    /\ boto3_call' = Null
    /\ request' = [op |-> "list_objects_v2", Bucket |-> backend.bucket_name, Prefix |-> prefix,
                   response |-> fault]
    /\ result' = S3ListStates(backend, fault)
    /\ UNCHANGED <<environ, global_bucket_name, store, s3_client, backend, tasks>>

\* backend.get_state(path)
BackendGetState(path, fault) ==
    /\ backend # Null
    /\ call' = [op |-> "get_state", path |-> path]
    /\ boto3_call' = Null
    /\ request' = [op |-> "get_object", Bucket |-> backend.bucket_name, Key |-> path,
                   response |-> fault]
    /\ result' = S3GetState(backend, path, fault)
    /\ UNCHANGED <<environ, global_bucket_name, store, s3_client, backend, tasks>>

-----------------------------------------------------------------------------
(* main.py                                                                 *)

\* lines 33-61 of get_s3_client taken on their own: a client is constructed
\* whatever the global holds
ConstructClient(profile_name, boto) ==
    LET aws_access_key == Get(environ, "AWS_ACCESS_KEY_ID")
        aws_secret_key == Get(environ, "AWS_SECRET_ACCESS_KEY")
        made ==
            IF Truthy(profile_name)
            THEN [fn |-> "boto3.Session", kwargs |-> MkDict([profile_name |-> profile_name])]
            ELSE IF Truthy(aws_access_key) /\ Truthy(aws_secret_key)
            THEN [fn |-> "boto3.client",
                  kwargs |-> MkDict([aws_access_key_id |-> aws_access_key,
                                     aws_secret_access_key |-> aws_secret_key])]
            ELSE [fn |-> "boto3.client", kwargs |-> MkDict([profile_name |-> Absent])]
        called == [fn |-> made.fn, kwargs |-> made.kwargs, outcome |-> boto]
    IN  IF boto = "ok"
        THEN [out |-> Ok(made), cache |-> made, called |-> called, made |-> made]
        ELSE [out |-> Raise("ValueError", "S3 client creation failed (ko): " \o boto),
              cache |-> s3_client, called |-> called, made |-> made]

\* get_s3_client without the test of line 30: every call constructs a client
\* and stores it
get_s3_clientUncached(profile_name, boto) ==
    LET c == ConstructClient(profile_name, boto)
    IN  [out |-> c.out, cache |-> c.cache, called |-> c.called]

\* get_s3_client that stores the client before it is known to be usable
get_s3_clientStoresFailed(profile_name, boto) ==
    LET c == ConstructClient(profile_name, boto)
    IN  IF s3_client # Null
        THEN [out |-> Ok(s3_client), cache |-> s3_client, called |-> Null]
        ELSE [out |-> c.out, cache |-> c.made, called |-> c.called]

\* get_s3_client that returns the stored client only if no profile is asked
\* for
get_s3_clientProfileWins(profile_name, boto) ==
    LET c == ConstructClient(profile_name, boto)
    IN  IF s3_client # Null /\ ~Truthy(profile_name)
        THEN [out |-> Ok(s3_client), cache |-> s3_client, called |-> Null]
        ELSE [out |-> c.out, cache |-> c.cache, called |-> c.called]

\* get_s3_client(profile_name): the client returned or the ValueError raised
\* (out), the value of the global s3_client afterwards (cache) and the boto3
\* constructor that was called, if any, with its outcome (called)
get_s3_client(profile_name, boto) ==
    IF s3_client # Null
    THEN [out |-> Ok(s3_client), cache |-> s3_client, called |-> Null]
    ELSE LET aws_access_key == Get(environ, "AWS_ACCESS_KEY_ID")
             aws_secret_key == Get(environ, "AWS_SECRET_ACCESS_KEY")
             made ==
                 IF Truthy(profile_name)
                 THEN [fn |-> "boto3.Session",
                       kwargs |-> MkDict([profile_name |-> profile_name])]
                 ELSE IF Truthy(aws_access_key) /\ Truthy(aws_secret_key)
                 THEN [fn |-> "boto3.client",
                       kwargs |-> MkDict([aws_access_key_id |-> aws_access_key,
                                          aws_secret_access_key |-> aws_secret_key])]
                 ELSE [fn |-> "boto3.client", kwargs |-> MkDict([profile_name |-> Absent])]
             called == [fn |-> made.fn, kwargs |-> made.kwargs, outcome |-> boto]
         IN  IF boto = "ok"
             THEN [out |-> Ok(made), cache |-> made, called |-> called]
             ELSE IF boto = "NoCredentialsError"
             \* "AWS 자격증명을 찾을 수 없습니다. 프로필 이름을 제공하거나 ... 환경변수를 설정하세요."
             THEN [out |-> Raise("ValueError", "AWS credentials not found (ko). Provide a profile name or set AWS_ACCESS_KEY_ID and AWS_SECRET_ACCESS_KEY."),
                   cache |-> s3_client, called |-> called]
             \* "S3 클라이언트 생성 실패: {str(e)}"
             ELSE [out |-> Raise("ValueError", "S3 client creation failed (ko): " \o boto),
                   cache |-> s3_client, called |-> called]

\* the inner loop of list_tfstate_files over page['Contents']
RECURSIVE ScanContents(_, _)
ScanContents(contents, tfstate_files) ==
    IF Len(contents) = 0 THEN tfstate_files
    ELSE LET key == Head(contents).Key
         IN  ScanContents(Tail(contents),
                          IF endswith(key, ".tfstate")
                          THEN Append(tfstate_files, key)
                          ELSE tfstate_files)

\* list_tfstate_files that stops at the first page without 'Contents'
RECURSIVE ScanPagesUntilEmpty(_, _)
ScanPagesUntilEmpty(pages, tfstate_files) ==
    IF Len(pages) = 0 THEN tfstate_files
    ELSE LET page == Head(pages)
         IN  IF "Contents" \in DOMAIN page
             THEN ScanPagesUntilEmpty(Tail(pages), ScanContents(page.Contents, tfstate_files))
             ELSE tfstate_files

\* the outer loop of list_tfstate_files over the pages
RECURSIVE ScanPages(_, _)
ScanPages(pages, tfstate_files) ==
    IF Len(pages) = 0 THEN tfstate_files
    ELSE LET page == Head(pages)
         IN  ScanPages(Tail(pages),
                       IF "Contents" \in DOMAIN page
                       THEN ScanContents(page.Contents, tfstate_files)
                       ELSE tfstate_files)

\* list_tfstate_files(bucket_name, prefix, profile_name): out as above, req
\* the request made to the store.  A bucket_name of None fails the client's
\* parameter validation before anything is sent.
list_tfstate_files(bucket_name, prefix, profile_name, boto, fault) ==
    LET g == get_s3_client(profile_name, boto)
        sent == [op |-> "list_objects_v2", Bucket |-> bucket_name, Prefix |-> prefix,
                 response |-> fault]
    IN  IF ~g.out.ok THEN [out |-> g.out, req |-> Null]
        ELSE IF bucket_name = None
        THEN [out |-> Raise("ParamValidationError", "Parameter validation failed: Invalid type for parameter Bucket, value: None"),
              req |-> Null]
        ELSE IF fault = "ok"
        THEN [out |-> Ok(ScanPages(store.pages, <<>>)), req |-> sent]
        ELSE IF fault = "NoSuchBucket"
        \* "버킷 '{bucket_name}'을 찾을 수 없습니다."
        THEN [out |-> Raise("ValueError", "bucket '" \o bucket_name \o "' not found (ko)"), req |-> sent]
        ELSE IF fault = "AccessDenied"
        \* "버킷 '{bucket_name}'에 대한 접근 권한이 없습니다."
        THEN [out |-> Raise("ValueError", "no access to bucket '" \o bucket_name \o "' (ko)"), req |-> sent]
        ELSE IF fault \in ClientErrorCodes
        \* "S3 오류: {str(e)}"
        THEN [out |-> Raise("ValueError", "S3 error (ko): " \o fault), req |-> sent]
        ELSE [out |-> Raise(fault, fault), req |-> sent]

\* json.dumps(value, indent=2, ensure_ascii=False): the JSON text of value,
\* kept as the value it denotes; a plain str text is [str |-> s]
JsonDumps(value) == [json |-> value]
Str(s) == [str |-> s]

\* a handler that catches ValueError only
OnlyValueError == {"ValueError"}

\* the exception classes `except Exception` of call_tool catches
ExceptionClasses == {"ValueError", "AttributeError", "TypeError", "UnicodeDecodeError",
                     "ParamValidationError", "EndpointConnectionError"}

\* call_tool: the prefix of the text returned for a caught exception,
\* f"오류 발생: {str(e)}"
ErrorPrefix == "oryu balsaeng: "

\* call_tool: what the handler returns for the outcome of the tool function
\* and the text built from its value
CallToolReturn(out, text) ==
    IF out.ok
    THEN [raised |-> FALSE, content |-> <<[type |-> "text", text |-> text]>>]
    ELSE IF out.exc \in ExceptionClasses
    THEN [raised |-> FALSE,
          content |-> <<[type |-> "text", text |-> Str(ErrorPrefix \o out.msg)]>>]
    ELSE [raised |-> TRUE, exc |-> out.exc]

\* call_tool("list_tfstate_files", arguments)
CallToolList(arguments, boto, fault) ==
    LET bucket_name == Get(arguments, "bucket_name")
        prefix == GetD(arguments, "prefix", "")
        profile_name == Get(arguments, "profile_name")
        g == get_s3_client(profile_name, boto)
        r == list_tfstate_files(bucket_name, prefix, profile_name, boto, fault)
        files == r.out.val
    IN  /\ call' = [op |-> "call_tool", name |-> "list_tfstate_files", arguments |-> arguments]
        /\ s3_client' = g.cache
        /\ boto3_call' = g.called
        /\ request' = r.req
        /\ result' = CallToolReturn(r.out,
                         IF r.out.ok
                         THEN JsonDumps([bucket |-> bucket_name, prefix |-> prefix,
                                         total_files |-> Len(files), tfstate_files |-> files])
                         ELSE Str(""))
        /\ UNCHANGED <<environ, global_bucket_name, store, backend>>

\* call_tool(name, arguments) for a name that is no tool
CallToolUnknown(name) ==
    /\ call' = [op |-> "call_tool", name |-> name, arguments |-> MkDict([bucket_name |-> Absent])]
    /\ boto3_call' = Null
    /\ request' = Null
    \* "알 수 없는 도구: {name}"
    /\ result' = CallToolReturn(Raise("ValueError", "unknown tool (ko): " \o name), Str(""))
    /\ UNCHANGED <<environ, global_bucket_name, store, s3_client, backend, tasks>>

\* the loop of read_and_search_tfstate over resource["instances"]
RECURSIVE BuildInstances(_, _)
BuildInstances(instances, acc) ==
    IF Len(instances) = 0 THEN acc
    ELSE LET instance == Head(instances)
             instance_info == [attributes |-> GetD(instance, "attributes", "{}"),
                               status |-> Get(instance, "status"),
                               schema_version |-> Get(instance, "schema_version")]
         IN  BuildInstances(Tail(instances), Append(acc, instance_info))

\* resource_info of one resource
ResourceInfo(resource) ==
    [type |-> Get(resource, "type"),
     name |-> Get(resource, "name"),
     provider |-> Get(resource, "provider"),
     mode |-> Get(resource, "mode"),
     instances |-> BuildInstances(GetD(resource, "instances", <<>>), <<>>)]

\* read_and_search_tfstate whose filter looks at the type only
RECURSIVE BuildResourcesTypeOnly(_, _, _)
BuildResourcesTypeOnly(resources, search_query, acc) ==
    IF Len(resources) = 0 THEN Ok(acc)
    ELSE LET resource_info == ResourceInfo(Head(resources))
             rest == Tail(resources)
         IN  IF Truthy(search_query)
             THEN IF resource_info.type = None
                  THEN Raise("AttributeError", "'NoneType' object has no attribute 'lower'")
                  ELSE IF contains(lower(resource_info.type), lower(search_query))
                  THEN BuildResourcesTypeOnly(rest, search_query, Append(acc, resource_info))
                  ELSE BuildResourcesTypeOnly(rest, search_query, acc)
             ELSE BuildResourcesTypeOnly(rest, search_query, Append(acc, resource_info))

\* read_and_search_tfstate that appends a resource_info only if the result
\* does not hold an equal one yet
RECURSIVE BuildResourcesDistinct(_, _, _)
BuildResourcesDistinct(resources, search_query, acc) ==
    IF Len(resources) = 0 THEN Ok(acc)
    ELSE LET resource_info == ResourceInfo(Head(resources))
             rest == Tail(resources)
             seen == \E i \in 1..Len(acc) : acc[i] = resource_info
             added == IF seen THEN acc ELSE Append(acc, resource_info)
         IN  IF Truthy(search_query)
             THEN IF resource_info.type = None
                  THEN Raise("AttributeError", "'NoneType' object has no attribute 'lower'")
                  ELSE IF contains(lower(resource_info.type), lower(search_query))
                  THEN BuildResourcesDistinct(rest, search_query, added)
                  ELSE IF resource_info.name = None
                  THEN Raise("AttributeError", "'NoneType' object has no attribute 'lower'")
                  ELSE IF contains(lower(resource_info.name), lower(search_query))
                  THEN BuildResourcesDistinct(rest, search_query, added)
                  ELSE BuildResourcesDistinct(rest, search_query, acc)
             ELSE BuildResourcesDistinct(rest, search_query, added)

\* the loop of read_and_search_tfstate over the resources: the list
\* result["resources"], or the AttributeError of None.lower().  The `or` of
\* the filter evaluates the name only when the type does not match.
RECURSIVE BuildResources(_, _, _)
BuildResources(resources, search_query, acc) ==
    IF Len(resources) = 0 THEN Ok(acc)
    ELSE LET resource_info == ResourceInfo(Head(resources))
             rest == Tail(resources)
         IN  IF Truthy(search_query)
             THEN IF resource_info.type = None
                  THEN Raise("AttributeError", "'NoneType' object has no attribute 'lower'")
                  ELSE IF contains(lower(resource_info.type), lower(search_query))
                  THEN BuildResources(rest, search_query, Append(acc, resource_info))
                  ELSE IF resource_info.name = None
                  THEN Raise("AttributeError", "'NoneType' object has no attribute 'lower'")
                  ELSE IF contains(lower(resource_info.name), lower(search_query))
                  THEN BuildResources(rest, search_query, Append(acc, resource_info))
                  ELSE BuildResources(rest, search_query, acc)
             ELSE BuildResources(rest, search_query, Append(acc, resource_info))

\* read_and_search_tfstate that counts the resources of the document
\* instead of the resources of the result
SearchTfstateCountsSource(tfstate_data, search_query) ==
    LET all == GetD(tfstate_data, "resources", <<>>)
        built == BuildResources(all, search_query, <<>>)
    IN  IF ~built.ok THEN built
        ELSE Ok([version |-> Get(tfstate_data, "version"),
                 terraform_version |-> Get(tfstate_data, "terraform_version"),
                 serial |-> Get(tfstate_data, "serial"),
                 lineage |-> Get(tfstate_data, "lineage"),
                 resources |-> built.val,
                 total_resources |-> Len(all)])

\* read_and_search_tfstate from the parsed document on
SearchTfstate(tfstate_data, search_query) ==
    LET built == BuildResources(GetD(tfstate_data, "resources", <<>>), search_query, <<>>)
    IN  IF ~built.ok THEN built
        ELSE Ok([version |-> Get(tfstate_data, "version"),
                 terraform_version |-> Get(tfstate_data, "terraform_version"),
                 serial |-> Get(tfstate_data, "serial"),
                 lineage |-> Get(tfstate_data, "lineage"),
                 resources |-> built.val,
                 total_resources |-> Len(built.val)])

\* read_and_search_tfstate(bucket_name, tfstate_path, search_query, profile_name)
read_and_search_tfstate(bucket_name, tfstate_path, search_query, profile_name, boto, fault) ==
    LET g == get_s3_client(profile_name, boto)
        sent == [op |-> "get_object", Bucket |-> bucket_name, Key |-> tfstate_path,
                 response |-> fault]
        body == store.body
    IN  IF ~g.out.ok THEN [out |-> g.out, req |-> Null]
        ELSE IF bucket_name = None
        THEN [out |-> Raise("ParamValidationError", "Parameter validation failed: Invalid type for parameter Bucket, value: None"),
              req |-> Null]
        ELSE IF tfstate_path = None
        THEN [out |-> Raise("ParamValidationError", "Parameter validation failed: Invalid type for parameter Key, value: None"),
              req |-> Null]
        ELSE IF fault = "NoSuchKey"
        \* "파일 '{tfstate_path}'을 버킷 '{bucket_name}'에서 찾을 수 없습니다."
        THEN [out |-> Raise("ValueError", "file '" \o tfstate_path \o "' not found in bucket '" \o bucket_name \o "' (ko)"),
              req |-> sent]
        ELSE IF fault = "AccessDenied"
        \* "파일 '{tfstate_path}'에 대한 접근 권한이 없습니다."
        THEN [out |-> Raise("ValueError", "no access to file '" \o tfstate_path \o "' (ko)"), req |-> sent]
        ELSE IF fault \in ClientErrorCodes
        \* "S3 오류: {str(e)}"
        THEN [out |-> Raise("ValueError", "S3 error (ko): " \o fault), req |-> sent]
        ELSE IF fault # "ok"
        THEN [out |-> Raise(fault, fault), req |-> sent]
        ELSE IF ~body.valid_utf8
        THEN [out |-> Raise("UnicodeDecodeError", "'utf-8' codec can't decode byte"), req |-> sent]
        ELSE IF ~body.valid_json
        \* "파일 '{tfstate_path}'은 유효한 JSON 형식이 아닙니다."
        THEN [out |-> Raise("ValueError", "file '" \o tfstate_path \o "' is not valid JSON (ko)"), req |-> sent]
        ELSE IF body.json_type # "object"
        THEN [out |-> Raise("AttributeError", "'" \o body.json_type \o "' object has no attribute 'get'"),
              req |-> sent]
        ELSE [out |-> SearchTfstate(body.json, search_query), req |-> sent]

\* call_tool("read_tfstate", arguments)
CallToolRead(arguments, boto, fault) ==
    LET bucket_name == Get(arguments, "bucket_name")
        tfstate_path == Get(arguments, "tfstate_path")
        search_query == Get(arguments, "search_query")
        profile_name == Get(arguments, "profile_name")
        g == get_s3_client(profile_name, boto)
        r == read_and_search_tfstate(bucket_name, tfstate_path, search_query,
                                     profile_name, boto, fault)
    IN  /\ call' = [op |-> "call_tool", name |-> "read_tfstate", arguments |-> arguments]
        /\ s3_client' = g.cache
        /\ boto3_call' = g.called
        /\ request' = r.req
        /\ result' = CallToolReturn(r.out, IF r.out.ok THEN JsonDumps(r.out.val) ELSE Str(""))
        /\ UNCHANGED <<environ, global_bucket_name, store, backend>>

-----------------------------------------------------------------------------
(* The inputs of the operations.                                           *)

\* the environment and the bucket override the process starts with
StartSet ==
    {[environ |-> MkDict([AWS_ACCESS_KEY_ID |-> e[1], AWS_SECRET_ACCESS_KEY |-> e[2],
                          TFSTATE_BUCKET_NAME |-> b[1]]),
      global_bucket_name |-> b[2]] :
        e \in {<<Absent, Absent>>, <<"key", Absent>>, <<"key", "secret">>},
        b \in {<<Absent, None>>, <<"env-bucket", None>>, <<"env-bucket", "cli-bucket">>}}

ListArguments ==
    {MkDict([bucket_name |-> a[1], prefix |-> a[2], profile_name |-> a[3]]) :
        a \in {<<Absent, Absent, Absent>>,
               <<Absent, "", Absent>>,
               <<"arg-bucket", Absent, Absent>>,
               <<"arg-bucket", "a/", "custom-profile">>,
               <<"arg-bucket", "a/", "">>}}

ReadArguments ==
    {MkDict([bucket_name |-> a[1], tfstate_path |-> a[2], search_query |-> a[3],
             profile_name |-> a[4]]) :
        a \in {<<Absent, "path/to/state", Absent, Absent>>,
               <<"arg-bucket", Absent, Absent, Absent>>,
               <<"arg-bucket", "path/to/state", Absent, Absent>>,
               <<"arg-bucket", "path/to/state", "", "custom-profile">>,
               <<"arg-bucket", "path/to/state", "WEB", Absent>>,
               <<"arg-bucket", "path/to/state", "db", "custom-profile">>,
               <<"arg-bucket", "path/to/state", "zzz", Absent>>}}

\* (profile_name, region_name, aws_access_key_id, aws_secret_access_key,
\*  aws_session_token) of S3Backend(...)
BackendArguments ==
    { <<None, None, None, None, None>>,
      <<"test-profile", None, None, None, None>>,
      <<None, None, "key", "secret", None>>,
      <<None, "us-east-1", "key", "secret", "token">>,
      <<"test-profile", None, "key", "secret", None>> }

QuerySet == {Absent, "", "WEB", "db", "inst", "zzz"}

\* the invocations of call_tool that are in progress: none at process start
TaskIds == 1..MaxTasks
IdleTask ==
    [pc |-> "idle", name |-> None, arguments |-> MkDict([profile_name |-> Absent]),
     first_use |-> FALSE, client |-> Null, constructed |-> Null]
NoTasks == [t \in TaskIds |-> IdleTask]

\* the requests the clients of the server send at the same time
TaskRequests ==
    {[name |-> "list_tfstate_files",
      arguments |-> MkDict([bucket_name |-> "arg-bucket", profile_name |-> Absent])],
     [name |-> "list_tfstate_files",
      arguments |-> MkDict([bucket_name |-> "arg-bucket", profile_name |-> "custom-profile"])],
     [name |-> "list_tfstate_files",
      arguments |-> MkDict([bucket_name |-> Absent, profile_name |-> "custom-profile"])],
     [name |-> "read_tfstate",
      arguments |-> MkDict([bucket_name |-> "arg-bucket", tfstate_path |-> "path/to/state",
                            profile_name |-> "other-profile"])]}

-----------------------------------------------------------------------------
(* The server process: any environment, the sample bucket.                 *)

Init ==
    /\ \/ /\ \E s \in StartSet : /\ environ = s.environ
                                /\ global_bucket_name = s.global_bucket_name
          /\ store = [pages |-> SamplePages, body |-> JsonBody(SampleDocument)]
       \/ /\ environ = MkDict([TFSTATE_BUCKET_NAME |-> "env-bucket"])
          /\ global_bucket_name = None
          /\ store \in {[pages |-> SamplePages, body |-> b] : b \in SampleBodies}
                     \cup {[pages |-> EmptyPages, body |-> JsonBody(EmptyDocument)]}
    /\ s3_client = Null
    /\ backend = Null
    /\ boto3_call = Null
    /\ request = Null
    /\ call = [op |-> "start"]
    /\ result = [op |-> "start"]
    /\ tasks = NoTasks

Next ==
    \/ \E arguments \in ListArguments, boto \in BotoOutcomes, fault \in ListFaults :
          CallToolList(arguments, boto, fault) /\ UNCHANGED tasks
    \/ \E arguments \in ReadArguments, boto \in BotoOutcomes, fault \in GetFaults :
          CallToolRead(arguments, boto, fault) /\ UNCHANGED tasks
    \/ \E name \in {"delete_tfstate"} : CallToolUnknown(name)
    \/ \E a \in BackendArguments, boto \in BotoOutcomes :
          S3BackendInit("test-bucket", a[1], a[2], a[3], a[4], a[5], boto)
    \/ \E prefix \in {"", "a/"}, fault \in ListFaults : BackendListStates(prefix, fault)
    \/ \E path \in {"test.tfstate"}, fault \in GetFaults : BackendGetState(path, fault)

Spec == Init /\ [][Next]_vars

-----------------------------------------------------------------------------
(* The listing over every bucket listing within the bounds, with a store   *)
(* that answers.                                                           *)

\* the backend S3Backend(bucket_name="test-bucket") constructs
TestBackend ==
    [bucket_name |-> "test-bucket",
     client |-> S3GetClient(S3SessionKwargs(None, None, None, None, None), "ok").val]

InitList ==
    /\ environ = MkDict([TFSTATE_BUCKET_NAME |-> "env-bucket"])
    /\ global_bucket_name = None
    /\ store \in {[pages |-> p, body |-> JsonBody(SampleDocument)] : p \in PagesSet}
    /\ s3_client = Null
    /\ backend = TestBackend
    /\ boto3_call = Null
    /\ request = Null
    /\ call = [op |-> "start"]
    /\ result = [op |-> "start"]
    /\ tasks = NoTasks

NextList ==
    \/ \E prefix \in {Absent, "a/"} :
          CallToolList(MkDict([bucket_name |-> "arg-bucket", prefix |-> prefix]), "ok", "ok")
             /\ UNCHANGED tasks
    \/ BackendListStates("", "ok")

SpecList == InitList /\ [][NextList]_vars

-----------------------------------------------------------------------------
(* The query over every state document within the bounds.                  *)

InitRead ==
    /\ environ = MkDict([TFSTATE_BUCKET_NAME |-> "env-bucket"])
    /\ global_bucket_name = None
    /\ store \in {[pages |-> SamplePages, body |-> JsonBody(d)] : d \in DocumentSet}
    /\ s3_client = Null
    /\ backend = TestBackend
    /\ boto3_call = Null
    /\ request = Null
    /\ call = [op |-> "start"]
    /\ result = [op |-> "start"]
    /\ tasks = NoTasks

NextRead ==
    \/ \E q \in QuerySet :
          CallToolRead(MkDict([bucket_name |-> "arg-bucket", tfstate_path |-> "path/to/state",
                               search_query |-> q]), "ok", "ok")
             /\ UNCHANGED tasks
    \/ BackendGetState("test.tfstate", "ok")

SpecRead == InitRead /\ [][NextRead]_vars

-----------------------------------------------------------------------------
(* Concurrent calls.  call_tool is a coroutine: an invocation is created   *)
(* when a request arrives and runs on the event loop later, other          *)
(* invocations being created or run in between.  Its body has no await,    *)
(* so once it runs it runs to its return.                                   *)

\* a request arrives: call_tool(name, arguments) is invoked and waits for
\* the event loop; first_use tells whether no client was cached then
TaskStart(t, name, arguments) ==
    /\ tasks[t].pc = "idle"
    /\ tasks' = [tasks EXCEPT ![t] = [pc |-> "pending", name |-> name, arguments |-> arguments,
                                       first_use |-> (s3_client = Null),
                                       client |-> Null, constructed |-> Null]]
    /\ UNCHANGED <<environ, global_bucket_name, store, s3_client, backend,
                   boto3_call, request, call, result>>

\* the event loop runs the invocation: the body of call_tool, from its
\* first line to its return.  The task keeps the client get_s3_client gave
\* it and the boto3 constructor it called, if any.
TaskRun(t, boto, fault) ==
    LET arguments == tasks[t].arguments
        g == get_s3_client(Get(arguments, "profile_name"), boto)
    IN  /\ tasks[t].pc = "pending"
        /\ IF tasks[t].name = "list_tfstate_files"
           THEN CallToolList(arguments, boto, fault)
           ELSE CallToolRead(arguments, boto, fault)
        /\ tasks' = [tasks EXCEPT ![t].pc = "done",
                                  ![t].client = IF g.out.ok THEN g.out.val ELSE Null,
                                  ![t].constructed = g.called]

InitTasks ==
    /\ environ \in {MkDict([AWS_ACCESS_KEY_ID |-> Absent]),
                     MkDict([AWS_ACCESS_KEY_ID |-> "key", AWS_SECRET_ACCESS_KEY |-> "secret"])}
    /\ global_bucket_name = None
    /\ store = [pages |-> SamplePages, body |-> JsonBody(SampleDocument)]
    /\ s3_client = Null
    /\ backend = Null
    /\ boto3_call = Null
    /\ request = Null
    /\ call = [op |-> "start"]
    /\ result = [op |-> "start"]
    /\ tasks = NoTasks

NextTasks ==
    \/ \E t \in TaskIds, r \in TaskRequests : TaskStart(t, r.name, r.arguments)
    \/ \E t \in TaskIds, boto \in BotoOutcomes, fault \in {"ok", "AccessDenied"} :
          TaskRun(t, boto, fault)
    \/ \E boto \in {"ok", "NoCredentialsError"} :
          S3BackendInit("test-bucket", "test-profile", None, None, None, None, boto)

SpecTasks == InitTasks /\ [][NextTasks]_vars

-----------------------------------------------------------------------------
(* What the last operation returned.                                       *)

\* the text of the single TextContent call_tool returned
ToolText == result.content[1].text

\* call_tool(name, ...) returned the JSON text of a result object
ToolSucceeded(name) ==
    /\ call.op = "call_tool"
    /\ call.name = name
    /\ ~result.raised
    /\ "json" \in DOMAIN ToolText

\* call_tool returned a plain text
ToolReturnedText ==
    /\ call.op = "call_tool"
    /\ ~result.raised
    /\ "str" \in DOMAIN ToolText

\* a listing was returned, by S3Backend.list_states or by list_tfstate_files
Listed ==
    \/ call.op = "list_states" /\ result.ok
    \/ ToolSucceeded("list_tfstate_files")

ListedFiles ==
    IF call.op = "list_states" THEN result.val ELSE ToolText.json.tfstate_files

\* the keys of all pages of the listing, in page order and within-page order
RECURSIVE KeysOf(_)
KeysOf(pages) ==
    IF Len(pages) = 0 THEN <<>>
    ELSE (IF "Contents" \in DOMAIN Head(pages)
          THEN [i \in 1..Len(Head(pages).Contents) |-> Head(pages).Contents[i].Key]
          ELSE <<>>) \o KeysOf(Tail(pages))

IsTfstateKey(key) == endswith(key, ".tfstate")

-----------------------------------------------------------------------------
(* Claims.                                                                 *)

\* C1: every key a listing returns ends with ".tfstate", and a key of the
\* store that does not end with ".tfstate" is not in the listing.
C1_OnlyTfstateKeys ==
    Listed =>
        /\ \A i \in 1..Len(ListedFiles) : endswith(ListedFiles[i], ".tfstate")
        /\ \A j \in 1..Len(KeysOf(store.pages)) :
              ~endswith(KeysOf(store.pages)[j], ".tfstate")
                  => \A i \in 1..Len(ListedFiles) : ListedFiles[i] # KeysOf(store.pages)[j]

\* S3Backend.list_states returned keys of a store that also holds keys
\* without the suffix, among them one that contains ".tfstate" inside
C1_Witness ==
    /\ call.op = "list_states"
    /\ result.ok
    /\ Len(result.val) >= 1
    /\ \E j \in 1..Len(KeysOf(store.pages)) : KeysOf(store.pages)[j] = "c.tfstate.backup"

\* C2: the listing is the sequence of the ".tfstate" keys of all pages, in
\* page order and within-page order; a page without 'Contents' adds nothing
\* and does not end the traversal.
C2_AllPagesInOrder ==
    Listed => ListedFiles = SelectSeq(KeysOf(store.pages), IsTfstateKey)

\* list_tfstate_files returned the two keys of a page that follows a page
\* without 'Contents'
C2_Witness ==
    /\ ToolSucceeded("list_tfstate_files")
    /\ Len(store.pages) = 2
    /\ "Contents" \notin DOMAIN store.pages[1]
    /\ Len(ToolText.json.tfstate_files) = 2
    /\ ToolText.json.tfstate_files[1] # ToolText.json.tfstate_files[2]

\* the resources of the stored document and the query of the last call
SourceResources == GetD(store.body.json, "resources", <<>>)
Query == Get(call.arguments, "search_query")

\* the lowercased query is a substring of the lowercased type or of the
\* lowercased name of the resource
QueryMatches(resource) ==
    \/ "type" \in DOMAIN resource /\ contains(lower(resource.type), lower(Query))
    \/ "name" \in DOMAIN resource /\ contains(lower(resource.name), lower(Query))

\* C3: with a non-empty search_query the resources read_tfstate returns are
\* the resources of the document whose lowercased type or lowercased name
\* contains the lowercased query, and no other.
C3_FilterIsSubstringMatch ==
    (ToolSucceeded("read_tfstate") /\ Truthy(Query)) =>
        LET kept == SelectSeq(SourceResources, QueryMatches)
        IN  /\ Len(ToolText.json.resources) = Len(kept)
            /\ \A i \in 1..Len(kept) :
                  ToolText.json.resources[i] = ResourceInfo(kept[i])

\* query "WEB" kept a resource named "web" and dropped another resource
C3_Witness ==
    /\ ToolSucceeded("read_tfstate")
    /\ Query = "WEB"
    /\ Len(ToolText.json.resources) = 1
    /\ ToolText.json.resources[1].name = "web"
    /\ Len(SourceResources) = 2

\* C4: total_files is the length of tfstate_files and total_resources is
\* the length of the resources returned.
C4_TotalsAreLengths ==
    /\ ToolSucceeded("list_tfstate_files") =>
          ToolText.json.total_files = Len(ToolText.json.tfstate_files)
    /\ ToolSucceeded("read_tfstate") =>
          ToolText.json.total_resources = Len(ToolText.json.resources)

\* a query that matches nothing in a document that has resources
C4_Witness ==
    /\ ToolSucceeded("read_tfstate")
    /\ Query = "zzz"
    /\ Len(SourceResources) >= 1
    /\ ToolText.json.total_resources = 0

\* the text s begins with prefix
startswith(s, prefix) ==
    /\ Len(s) >= Len(prefix)
    /\ SubSeq(s, 1, Len(prefix)) = prefix

\* the call failed somewhere: the client could not be created, nothing was
\* sent, the store answered with an error, the object is no JSON object, or
\* the name is no tool
CallFailed ==
    \/ call.name \notin {"list_tfstate_files", "read_tfstate"}
    \/ boto3_call # Null /\ boto3_call.outcome # "ok"
    \/ request = Null
    \/ request.response # "ok"
    \/ /\ call.name = "read_tfstate"
       /\ ~(store.body.valid_utf8 /\ store.body.valid_json /\ store.body.json_type = "object")

\* call_tool raises nothing and returns one text, which is the JSON text of a
\* result or, after every failure, a text that begins with the prefix
ErrorsAreTextWith(prefix) ==
    call.op = "call_tool" =>
        /\ ~result.raised
        /\ Len(result.content) = 1
        /\ result.content[1].type = "text"
        /\ "json" \in DOMAIN ToolText \/ startswith(ToolText.str, prefix)
        /\ CallFailed => "str" \in DOMAIN ToolText

MatchesWithEmptyDefault(resource) ==
    \/ contains(lower(GetD(resource, "type", "")), lower(Query))
    \/ contains(lower(GetD(resource, "name", "")), lower(Query))

\* C6: with a non-empty search_query, a resource without 'type' or 'name'
\* makes read_tfstate neither raise nor return an error; the missing field
\* counts as the empty string and the resource is matched on its other field.
C6_MissingFieldIsEmptyString ==
    ( /\ call.op = "call_tool"
      /\ call.name = "read_tfstate"
      /\ Truthy(Query)
      /\ ~CallFailed ) =>
        /\ ToolSucceeded("read_tfstate")
        /\ LET kept == SelectSeq(SourceResources, MatchesWithEmptyDefault)
           IN  /\ Len(ToolText.json.resources) = Len(kept)
               /\ \A i \in 1..Len(kept) :
                     ToolText.json.resources[i] = ResourceInfo(kept[i])

\* an access key id and a secret access key are both present: in the
\* arguments of S3Backend(...), in the environment for get_s3_client
KeyPairPresent ==
    IF call.op = "S3Backend"
    THEN Truthy(call.args.aws_access_key_id) /\ Truthy(call.args.aws_secret_access_key)
    ELSE Truthy(Get(environ, "AWS_ACCESS_KEY_ID")) /\ Truthy(Get(environ, "AWS_SECRET_ACCESS_KEY"))

\* the profile the caller provided
ProfileProvided ==
    IF call.op = "S3Backend" THEN call.args.profile_name
    ELSE Get(call.arguments, "profile_name")

\* C7: when an access key id and a secret access key are both present the
\* session is built from them, with the session token only if it is present,
\* and no profile name is passed to the session.
C7_ExplicitKeysIgnoreProfile ==
    (boto3_call # Null /\ KeyPairPresent) =>
        /\ "aws_access_key_id" \in DOMAIN boto3_call.kwargs
        /\ "aws_secret_access_key" \in DOMAIN boto3_call.kwargs
        /\ "profile_name" \notin DOMAIN boto3_call.kwargs
        /\ call.op = "S3Backend" =>
              ("aws_session_token" \in DOMAIN boto3_call.kwargs
                   <=> Truthy(call.args.aws_session_token))

\* C8: without a key pair the session is built from the profile provided,
\* and without a profile from the profile named "default".
C8_ProfileElseDefault ==
    (boto3_call # Null /\ ~KeyPairPresent) =>
        /\ "profile_name" \in DOMAIN boto3_call.kwargs
        /\ boto3_call.kwargs.profile_name =
              IF Truthy(ProfileProvided) THEN ProfileProvided ELSE "default"

\* the bucket of the spec: the override, else TFSTATE_BUCKET_NAME
ResolvedBucket ==
    IF global_bucket_name # None THEN global_bucket_name
    ELSE Get(environ, "TFSTATE_BUCKET_NAME")

\* C9: the bucket of every store request and of the list_tfstate_files
\* result is the override given at process start, else the value of
\* TFSTATE_BUCKET_NAME.
C9_BucketPrecedence ==
    (call.op = "call_tool" /\ ResolvedBucket # None) =>
        /\ request # Null => request.Bucket = ResolvedBucket
        /\ ToolSucceeded("list_tfstate_files") => ToolText.json.bucket = ResolvedBucket

\* C10: with neither an override nor TFSTATE_BUCKET_NAME, a tool call
\* returns the error text that TFSTATE_BUCKET_NAME is not set and sends no
\* request to the store.
C10_BucketNotConfigured ==
    ( /\ call.op = "call_tool"
      /\ call.name \in {"list_tfstate_files", "read_tfstate"}
      /\ ResolvedBucket = None ) =>
        /\ request = Null
        /\ ToolReturnedText
        /\ contains(ToolText.str, "TFSTATE_BUCKET_NAME environment variable is not set")

-----------------------------------------------------------------------------
(* Object content that is no JSON document.                                *)

\* the store answered get_object and the bytes are not UTF-8 or the text is
\* not JSON
InvalidContentRead ==
    /\ request # Null
    /\ request.op = "get_object"
    /\ request.response = "ok"
    /\ ~(store.body.valid_utf8 /\ store.body.valid_json)

\* the failure json.JSONDecodeError is turned into (s3.py:118-119,
\* main.py:179-180), as get_state raises it or as call_tool renders it
NotValidJsonFailure ==
    IF call.op = "get_state"
    THEN /\ ~result.ok
         /\ result.exc = "ValueError"
         /\ result.msg = "File '" \o call.path \o "' is not valid JSON."
    ELSE /\ ToolReturnedText
         /\ startswith(ToolText.str, ErrorPrefix)
         /\ contains(ToolText.str, "is not valid JSON")

\* C11: reading an object whose content is not a JSON document (not JSON
\* text, or bytes that are not UTF-8) fails with the not-valid-JSON error,
\* returns no document, and call_tool renders it as an error text.
C11_InvalidContentIsFormatError ==
    InvalidContentRead => NotValidJsonFailure

-----------------------------------------------------------------------------
(* Order of the resources and of their instances.                          *)

\* the resources read_tfstate returned
ReturnedResources == ToolText.json.resources

\* sub is what remains of the resource_infos of full after some of them are
\* dropped, the others keeping their order
RECURSIVE IsSubsequenceOf(_, _)
IsSubsequenceOf(sub, full) ==
    IF Len(sub) = 0 THEN TRUE
    ELSE IF Len(full) = 0 THEN FALSE
    ELSE IF Head(sub) = ResourceInfo(Head(full))
    THEN IsSubsequenceOf(Tail(sub), Tail(full))
    ELSE IsSubsequenceOf(sub, Tail(full))

\* the i-th returned resource is the i-th resource of the document, with
\* its instances one for one in the order of the document
SameResourceAt(i) ==
    LET source == SourceResources[i]
        instances == GetD(source, "instances", <<>>)
        shown == ReturnedResources[i]
    IN  /\ shown.type = Get(source, "type")
        /\ shown.name = Get(source, "name")
        /\ Len(shown.instances) = Len(instances)
        /\ \A j \in 1..Len(instances) :
              /\ shown.instances[j].attributes = GetD(instances[j], "attributes", "{}")
              /\ shown.instances[j].status = Get(instances[j], "status")

\* C12: without a search_query, or with the empty one, read_tfstate returns
\* as many resources as the document has, each at its place and with its
\* instances in the order of the document, none dropped as a duplicate;
\* with a non-empty query the resources returned are a subsequence of the
\* resources of the document.
C12_NoQueryKeepsAllInOrder ==
    ToolSucceeded("read_tfstate") =>
        IF Truthy(Query)
        THEN IsSubsequenceOf(ReturnedResources, SourceResources)
        ELSE /\ Len(ReturnedResources) = Len(SourceResources)
             /\ \A i \in 1..Len(SourceResources) : SameResourceAt(i)

\* the empty query on a document that holds the same resource twice, with
\* two instances: both are returned, the instances in their order
C12_Witness ==
    /\ ToolSucceeded("read_tfstate")
    /\ Query = ""
    /\ Len(SourceResources) = 2
    /\ SourceResources[1] = SourceResources[2]
    /\ Len(ReturnedResources) = 2
    /\ Len(ReturnedResources[2].instances) = 2
    /\ ReturnedResources[2].instances[1].attributes = "{id: i-1}"
    /\ ReturnedResources[2].instances[2].attributes = "{id: i-2}"

-----------------------------------------------------------------------------
(* The cached client under concurrent calls.                               *)

Done(t) == tasks[t].pc = "done"

\* the call of task t constructed a client and the constructor returned
Constructed(t) ==
    /\ tasks[t].constructed # Null
    /\ tasks[t].constructed.outcome = "ok"

\* the call of task t tried to construct a client and the constructor raised
ConstructionFailed(t) ==
    /\ tasks[t].constructed # Null
    /\ tasks[t].constructed.outcome # "ok"

ProfileOf(t) == Get(tasks[t].arguments, "profile_name")

\* C13: however the calls that arrive before any client is cached are
\* interleaved, at most one of them constructs a client successfully, that
\* client is the one cached, and every call that got a client got that one.
C13_OneClientForConcurrentFirstCalls ==
    /\ Cardinality({t \in TaskIds : Constructed(t)}) <= 1
    /\ \A t \in TaskIds : Constructed(t) =>
          /\ s3_client # Null
          /\ s3_client.fn = tasks[t].constructed.fn
          /\ s3_client.kwargs = tasks[t].constructed.kwargs
    /\ \A t \in TaskIds : (Done(t) /\ tasks[t].client # Null) => tasks[t].client = s3_client

\* two calls with different profiles arrived while no client was cached;
\* one constructed the client and the other one was given the same client
C13_Witness ==
    \E t, u \in TaskIds :
        /\ Done(t) /\ Done(u)
        /\ tasks[t].first_use /\ tasks[u].first_use
        /\ ProfileOf(t) = "custom-profile"
        /\ ProfileOf(u) = "other-profile"
        /\ Constructed(t)
        /\ tasks[u].constructed = Null
        /\ tasks[u].client = tasks[t].client
        /\ s3_client.kwargs.profile_name = "custom-profile"

\* C14: as long as every call so far failed in the construction of the
\* client no client is cached; as long as none is cached every call
\* attempts the construction again; a call whose construction failed was
\* given no client; the client cached is one a call constructed
\* successfully; a backend that is visible holds a client.
C14_FailedConstructionLeavesCacheEmpty ==
    /\ (\A t \in TaskIds : Done(t) => ConstructionFailed(t)) => s3_client = Null
    /\ s3_client = Null => \A t \in TaskIds : Done(t) => ConstructionFailed(t)
    /\ \A t \in TaskIds : ConstructionFailed(t) => tasks[t].client = Null
    /\ s3_client # Null =>
          \E t \in TaskIds : /\ Constructed(t)
                             /\ s3_client.fn = tasks[t].constructed.fn
                             /\ s3_client.kwargs = tasks[t].constructed.kwargs
    /\ backend # Null =>
          /\ backend.bucket_name = "test-bucket"
          /\ backend.client.fn = "boto3.Session"

\* a call failed to construct the client, and the call after it constructed
\* one, which is cached
C14_Witness ==
    \E t, u \in TaskIds :
        /\ ConstructionFailed(t)
        /\ tasks[t].constructed.outcome = "NoCredentialsError"
        /\ Done(u)
        /\ Constructed(u)
        /\ tasks[u].client = s3_client
        /\ s3_client # Null

\* a step from a state with a cached client: the client stays cached, and
\* a call that ran called no constructor and was given the cached client
CachedClientKept ==
    s3_client # Null =>
        /\ s3_client' = s3_client
        /\ \A t \in TaskIds :
              (tasks[t].pc = "pending" /\ tasks'[t].pc = "done") =>
                  /\ tasks'[t].client = s3_client
                  /\ tasks'[t].constructed = Null
                  /\ boto3_call' = Null

\* C15: once a client is cached no later operation replaces or clears it,
\* whatever profile_name the call carries, and every later call is given
\* the client of the first successful construction.
C15_CacheIsWriteOnce == [][CachedClientKept]_vars

\* a call that asked for another profile arrived after a client built
\* without that profile was cached, and was given the cached client
C15_Witness ==
    \E t \in TaskIds :
        /\ Done(t)
        /\ ~tasks[t].first_use
        /\ ProfileOf(t) = "other-profile"
        /\ tasks[t].constructed = Null
        /\ tasks[t].client = s3_client
        /\ s3_client.fn = "boto3.client"
        /\ "profile_name" \notin DOMAIN s3_client.kwargs

====
